---- MODULE Spec2Model ----
(***************************************************************************)
(* The two scalar text codecs of package vmap (structure.go): Duration     *)
(* (HH:MM:SS[.mmm]) and TimeOffset (duration, start/end, #N, N%).          *)
(*                                                                         *)
(* A text ([]byte) is a sequence of one-character strings.                 *)
(*                                                                         *)
(* A Duration (time.Duration, an int64 count of nanoseconds) is held as    *)
(* [h, ms]: whole hours plus the milliseconds within the hour              *)
(* (0 .. 3599999).  Every value the codecs read or write is a whole        *)
(* number of milliseconds, and the pair keeps the whole int64 range        *)
(* (up to 2562047h47m16.854s) within 32-bit integers.                      *)
(*                                                                         *)
(* A float32 Percent is always float32(p)/100 for an int8 p; it is held    *)
(* as p (hundredths).  The rounding of float32(p)/100*100 that             *)
(* MarshalText prints is tabulated in PercentRounding.                     *)
(***************************************************************************)
EXTENDS Integers, Sequences, FiniteSets, TLC

VARIABLES pc, data, d, to, err, out, back, fresh, calls

vars == <<pc, data, d, to, err, out, back, fresh, calls>>

----------------------------------------------------------------------------
(* Characters and decimal numerals *)

Digits == {"0", "1", "2", "3", "4", "5", "6", "7", "8", "9"}

DigitVal(c) ==
  CASE c = "0" -> 0 [] c = "1" -> 1 [] c = "2" -> 2 [] c = "3" -> 3
    [] c = "4" -> 4 [] c = "5" -> 5 [] c = "6" -> 6 [] c = "7" -> 7
    [] c = "8" -> 8 [] c = "9" -> 9

DigitChar(n) == <<"0", "1", "2", "3", "4", "5", "6", "7", "8", "9">>[n + 1]

IsDigit(c) == c \in Digits

(* length of the longest prefix of s made of digits *)
DigitPrefixLen(s) ==
  IF \E i \in 1..Len(s) : s[i] \notin Digits
  THEN (CHOOSE i \in 1..Len(s) :
          /\ s[i] \notin Digits
          /\ \A j \in 1..(i - 1) : s[j] \in Digits) - 1
  ELSE Len(s)

(* length of the longest prefix of s holding neither a digit nor '.' *)
UnitPrefixLen(s) ==
  IF \E i \in 1..Len(s) : s[i] \in Digits \cup {"."}
  THEN (CHOOSE i \in 1..Len(s) :
          /\ s[i] \in Digits \cup {"."}
          /\ \A j \in 1..(i - 1) : s[j] \notin Digits \cup {"."}) - 1
  ELSE Len(s)

Drop(s, n) == SubSeq(s, n + 1, Len(s))

StripZeros(s) ==
  IF \E i \in 1..Len(s) : s[i] # "0"
  THEN Drop(s, (CHOOSE i \in 1..Len(s) :
                  s[i] # "0" /\ \A j \in 1..(i - 1) : s[j] = "0") - 1)
  ELSE <<>>

(* a > b for two digit strings of the same length *)
LexGreater(a, b) ==
  \E i \in 1..Len(a) :
    /\ DigitVal(a[i]) > DigitVal(b[i])
    /\ \A j \in 1..(i - 1) : a[j] = b[j]

(* strconv.Itoa for n >= 0 *)
RECURSIVE Itoa(_)
Itoa(n) == IF n < 10 THEN <<DigitChar(n)>>
           ELSE Append(Itoa(n \div 10), DigitChar(n % 10))

RECURSIVE PadZero(_, _)
PadZero(s, width) == IF Len(s) >= width THEN s ELSE PadZero(<<"0">> \o s, width)

----------------------------------------------------------------------------
(* time.Duration, in whole milliseconds *)

HourMs == 60 * 60 * 1000

Dur(h, ms) == [h |-> h, ms |-> ms]

ZeroDuration == Dur(0, 0)

(* math.MaxInt64 nanoseconds, cut to whole milliseconds:
   9223372036854 ms = 2562047h 47m 16.854s *)
MaxDuration == Dur(2562047, 47 * 60000 + 16 * 1000 + 854)

DurLeq(a, b) == a.h < b.h \/ (a.h = b.h /\ a.ms <= b.ms)

(* an optional Duration: out of the int64 range, or a value *)
Overflow == [ok |-> FALSE, h |-> 0, ms |-> 0]

InRange(h, ms) ==
  IF DurLeq(Dur(h, ms), MaxDuration) THEN [ok |-> TRUE, h |-> h, ms |-> ms]
  ELSE Overflow

(* v*10 + c*unit, for a digit c and a unit given in milliseconds *)
ShiftIn(v, c, unitMs) ==
  IF ~v.ok THEN Overflow
  ELSE LET m == v.ms * 10 + c * unitMs
       IN  InRange(v.h * 10 + m \div HourMs, m % HourMs)

(* a + b *)
DurAdd(a, b) ==
  IF ~a.ok \/ ~b.ok THEN Overflow
  ELSE LET m == a.ms + b.ms
       IN  InRange(a.h + b.h + m \div HourMs, m % HourMs)

(* the value of a digit run counted in a unit, by Horner's rule *)
RECURSIVE RunTimesUnit(_, _, _, _)
RunTimesUnit(run, i, acc, unitMs) ==
  IF i > Len(run) THEN acc
  ELSE RunTimesUnit(run, i + 1, ShiftIn(acc, DigitVal(run[i]), unitMs), unitMs)

----------------------------------------------------------------------------
(* Errors: the message, the message of the wrapped error (%w) if any, and
   the text the message quotes *)

NoError == [msg |-> "", cause |-> "", text |-> <<>>]

Errorf(msg, cause, text) == [msg |-> msg, cause |-> cause, text |-> text]

----------------------------------------------------------------------------
(* time.ParseDuration, on the strings Duration.UnmarshalText hands it:
   digits and the letters h, m, s (never a sign or a '.') *)

unitMap == {<<"h">>, <<"m">>, <<"s">>, <<"m", "s">>}

unitMs(u) ==
  CASE u = <<"h">> -> HourMs
    [] u = <<"m">> -> 60 * 1000
    [] u = <<"s">> -> 1000
    [] u = <<"m", "s">> -> 1

(* 1<<63, the largest value leadingInt returns *)
Two63 == <<"9", "2", "2", "3", "3", "7", "2", "0", "3", "6",
           "8", "5", "4", "7", "7", "5", "8", "0", "8">>

leadingIntOverflows(run) ==
  LET r == StripZeros(run)
  IN  Len(r) > Len(Two63) \/ (Len(r) = Len(Two63) /\ LexGreater(r, Two63))

ParseFail(msg, orig) == [ok |-> FALSE, d |-> ZeroDuration, msg |-> msg, text |-> orig]

RECURSIVE ParseLoop(_, _, _)
ParseLoop(s, acc, orig) ==
  IF s = <<>> THEN [ok |-> TRUE, d |-> Dur(acc.h, acc.ms), msg |-> "", text |-> <<>>]
  ELSE IF ~IsDigit(s[1]) THEN ParseFail("time: invalid duration", orig)
  ELSE
    LET n    == DigitPrefixLen(s)
        run  == SubSeq(s, 1, n)
        rest == Drop(s, n)
        i    == UnitPrefixLen(rest)
        u    == SubSeq(rest, 1, i)
    IN  IF leadingIntOverflows(run) THEN ParseFail("time: invalid duration", orig)
        ELSE IF i = 0 THEN ParseFail("time: missing unit in duration", orig)
        ELSE IF u \notin unitMap THEN ParseFail("time: unknown unit", orig)
        ELSE
          LET v   == RunTimesUnit(run, 1, InRange(0, 0), unitMs(u))
              sum == DurAdd(acc, v)
          IN  IF ~v.ok \/ ~sum.ok THEN ParseFail("time: invalid duration", orig)
              ELSE ParseLoop(Drop(rest, i), sum, orig)

ParseDuration(s) ==
  IF s = <<>> THEN ParseFail("time: invalid duration", s)
  ELSE ParseLoop(s, InRange(0, 0), s)

----------------------------------------------------------------------------
(* Duration.UnmarshalText *)

formatStrings == <<<<"h">>, <<"m">>, <<"s">>, <<"m", "s">>>>

(* ScanDuration refusing the third separator already (currentPart == 2) *)
RECURSIVE ScanDurationOffByOne(_, _, _, _)
ScanDurationOffByOne(text, i, sb, currentPart) ==
  IF i > Len(text) THEN [fail |-> FALSE, sb |-> sb, currentPart |-> currentPart]
  ELSE LET b == text[i]
       IN  IF b \in {":", "."}
           THEN IF currentPart = 2
                THEN [fail |-> TRUE, sb |-> sb, currentPart |-> currentPart]
                ELSE ScanDurationOffByOne(text, i + 1,
                                          sb \o formatStrings[currentPart + 1],
                                          currentPart + 1)
           ELSE IF b \in Digits
                THEN ScanDurationOffByOne(text, i + 1, Append(sb, b), currentPart)
                ELSE ScanDurationOffByOne(text, i + 1, sb, currentPart)

(* ScanDuration reading '.' as the start of the milliseconds, wherever it
   stands *)
RECURSIVE ScanDurationDotIsMillis(_, _, _, _)
ScanDurationDotIsMillis(text, i, sb, currentPart) ==
  IF i > Len(text) THEN [fail |-> FALSE, sb |-> sb, currentPart |-> currentPart]
  ELSE LET b == text[i]
       IN  IF b \in {":", "."}
           THEN IF currentPart = 3
                THEN [fail |-> TRUE, sb |-> sb, currentPart |-> currentPart]
                ELSE IF b = "."
                THEN ScanDurationDotIsMillis(text, i + 1, sb \o formatStrings[3], 3)
                ELSE ScanDurationDotIsMillis(text, i + 1,
                                             sb \o formatStrings[currentPart + 1],
                                             currentPart + 1)
           ELSE IF b \in Digits
                THEN ScanDurationDotIsMillis(text, i + 1, Append(sb, b), currentPart)
                ELSE ScanDurationDotIsMillis(text, i + 1, sb, currentPart)

(* the loop over data: the buffer sb and currentPart it ends with, or fail
   when a separator arrives with currentPart = 3 *)
RECURSIVE ScanDuration(_, _, _, _)
ScanDuration(text, i, sb, currentPart) ==
  IF i > Len(text) THEN [fail |-> FALSE, sb |-> sb, currentPart |-> currentPart]
  ELSE LET b == text[i]
       IN  IF b \in {":", "."}
           THEN IF currentPart = 3
                THEN [fail |-> TRUE, sb |-> sb, currentPart |-> currentPart]
                ELSE ScanDuration(text, i + 1, sb \o formatStrings[currentPart + 1],
                                  currentPart + 1)
           ELSE IF b \in Digits
                THEN ScanDuration(text, i + 1, Append(sb, b), currentPart)
                ELSE ScanDuration(text, i + 1, sb, currentPart)

(* DurationUnmarshalText whose errors all quote the buffer handed to
   time.ParseDuration *)
DurationUnmarshalTextQuotesBuffer(recv, text) ==
  LET scan == ScanDuration(text, 1, <<>>, 0)
      sb   == scan.sb \o formatStrings[scan.currentPart + 1]
  IN  IF scan.fail \/ scan.currentPart < 2
      THEN [d |-> recv, err |-> Errorf("invalid duration format", "", sb)]
      ELSE LET dur == ParseDuration(sb)
           IN  IF ~dur.ok
               THEN [d |-> recv,
                     err |-> Errorf("error parsing duration", dur.msg, dur.text)]
               ELSE [d |-> dur.d, err |-> NoError]

(* the receiver's value after the call, and the error returned *)
DurationUnmarshalText(recv, text) ==
  LET scan == ScanDuration(text, 1, <<>>, 0)
  IN  IF scan.fail
      THEN [d |-> recv, err |-> Errorf("invalid duration format", "", text)]
      ELSE
        LET sb == scan.sb \o formatStrings[scan.currentPart + 1]
        IN  IF scan.currentPart < 2
            THEN [d |-> recv, err |-> Errorf("invalid duration format", "", text)]
            ELSE LET dur == ParseDuration(sb)
                 IN  IF ~dur.ok
                     THEN [d |-> recv,
                           err |-> Errorf("error parsing duration", dur.msg, dur.text)]
                     ELSE [d |-> dur.d, err |-> NoError]

----------------------------------------------------------------------------
(* Duration.MarshalText, for d >= 0 a whole number of milliseconds.
   int(d.Hours()) is d.h; the minutes, seconds and milliseconds of d
   modulo 60, 60 and 1000 are those of d.ms, an hour being a multiple of
   each. *)

Sprintf02d(n) == PadZero(Itoa(n), 2)

Sprintf03d(n) == PadZero(Itoa(n), 3)

(* DurationMarshalText never writing the milliseconds *)
DurationMarshalTextNoMillis(dur) ==
  IF dur = ZeroDuration
  THEN <<"0", "0", ":", "0", "0", ":", "0", "0">>
  ELSE Sprintf02d(dur.h) \o <<":">> \o Sprintf02d((dur.ms \div 60000) % 60) \o <<":">>
         \o Sprintf02d((dur.ms \div 1000) % 60)

(* DurationMarshalText writing the total minutes, not reduced modulo 60 *)
DurationMarshalTextTotalMinutes(dur) ==
  IF dur = ZeroDuration
  THEN <<"0", "0", ":", "0", "0", ":", "0", "0">>
  ELSE
    LET hms == Sprintf02d(dur.h) \o <<":">> \o Sprintf02d(dur.h * 60 + dur.ms \div 60000)
                 \o <<":">> \o Sprintf02d((dur.ms \div 1000) % 60)
    IN  IF dur.ms % 1000 > 0 THEN hms \o <<".">> \o Sprintf03d(dur.ms % 1000)
        ELSE hms

DurationMarshalText(dur) ==
  IF dur = ZeroDuration
  THEN <<"0", "0", ":", "0", "0", ":", "0", "0">>
  ELSE
    LET hours        == dur.h
        minutes      == (dur.h * 60 + dur.ms \div 60000) % 60
        seconds      == (dur.ms \div 1000) % 60
        milliseconds == dur.ms % 1000
        hms == Sprintf02d(hours) \o <<":">> \o Sprintf02d(minutes) \o <<":">>
                 \o Sprintf02d(seconds)
    IN  IF milliseconds > 0 THEN hms \o <<".">> \o Sprintf03d(milliseconds)
        ELSE hms

----------------------------------------------------------------------------
(* strconv.ParseInt(s, 10, 8) *)

RECURSIVE ParseUint8(_, _, _)
ParseUint8(s, i, n) ==
  IF i > Len(s) THEN [ok |-> TRUE, n |-> n, msg |-> ""]
  ELSE IF ~IsDigit(s[i]) THEN [ok |-> FALSE, n |-> 0, msg |-> "invalid syntax"]
  ELSE LET n1 == n * 10 + DigitVal(s[i])
       IN  IF n1 > 255 THEN [ok |-> FALSE, n |-> 255, msg |-> "value out of range"]
           ELSE ParseUint8(s, i + 1, n1)

ParseInt8(s) ==
  IF s = <<>> THEN [ok |-> FALSE, n |-> 0, msg |-> "invalid syntax", text |-> s]
  ELSE
    LET neg  == s[1] = "-"
        body == IF s[1] \in {"+", "-"} THEN Drop(s, 1) ELSE s
        un   == IF body = <<>> THEN [ok |-> FALSE, n |-> 0, msg |-> "invalid syntax"]
                ELSE ParseUint8(body, 1, 0)
    IN  IF ~un.ok THEN [ok |-> FALSE, n |-> 0, msg |-> un.msg, text |-> s]
        ELSE IF ~neg /\ un.n >= 128
             THEN [ok |-> FALSE, n |-> 127, msg |-> "value out of range", text |-> s]
        ELSE IF neg /\ un.n > 128
             THEN [ok |-> FALSE, n |-> -128, msg |-> "value out of range", text |-> s]
        ELSE [ok |-> TRUE, n |-> IF neg THEN -un.n ELSE un.n, msg |-> "", text |-> s]

----------------------------------------------------------------------------
(* TimeOffset.  Duration is a pointer: <<>> is nil, <<v>> points to v.
   Percent p stands for float32(p)/100. *)

OffsetStart == -1

OffsetEnd == -2

TimeOffset(dur, position, percent) ==
  [Duration |-> dur, Position |-> position, Percent |-> percent]

ZeroTimeOffset == TimeOffset(<<>>, 0, 0)

HasSuffix(s, c) == s # <<>> /\ s[Len(s)] = c

HasPrefix(s, c) == s # <<>> /\ s[1] = c

(* TimeOffsetUnmarshalText testing the '#' prefix before the '%' suffix *)
TimeOffsetUnmarshalTextPrefixFirst(recv, text) ==
  IF text = <<"s", "t", "a", "r", "t">>
  THEN [to |-> [recv EXCEPT !.Position = OffsetStart], err |-> NoError]
  ELSE IF text = <<"e", "n", "d">>
  THEN [to |-> [recv EXCEPT !.Position = OffsetEnd], err |-> NoError]
  ELSE IF HasPrefix(text, "#")
  THEN LET p == ParseInt8(Drop(text, 1))
       IN  IF ~p.ok
           THEN [to |-> recv,
                 err |-> Errorf("error parsing position offset", p.msg, p.text)]
           ELSE [to |-> [recv EXCEPT !.Position = p.n], err |-> NoError]
  ELSE IF HasSuffix(text, "%")
  THEN LET p == ParseInt8(SubSeq(text, 1, Len(text) - 1))
       IN  IF ~p.ok
           THEN [to |-> recv,
                 err |-> Errorf("error parsing percentage offset", p.msg, p.text)]
           ELSE [to |-> [recv EXCEPT !.Percent = p.n], err |-> NoError]
  ELSE LET r == DurationUnmarshalText(ZeroDuration, text)
       IN  [to |-> [recv EXCEPT !.Duration = <<r.d>>], err |-> r.err]

(* the receiver's value after the call, and the error returned *)
TimeOffsetUnmarshalText(recv, text) ==
  IF text = <<"s", "t", "a", "r", "t">>
  THEN [to |-> [recv EXCEPT !.Position = OffsetStart], err |-> NoError]
  ELSE IF text = <<"e", "n", "d">>
  THEN [to |-> [recv EXCEPT !.Position = OffsetEnd], err |-> NoError]
  ELSE IF HasSuffix(text, "%")
  THEN LET p == ParseInt8(SubSeq(text, 1, Len(text) - 1))
       IN  IF ~p.ok
           THEN [to |-> recv,
                 err |-> Errorf("error parsing percentage offset", p.msg, p.text)]
           ELSE [to |-> [recv EXCEPT !.Percent = p.n], err |-> NoError]
  ELSE IF HasPrefix(text, "#")
  THEN LET p == ParseInt8(Drop(text, 1))
       IN  IF ~p.ok
           THEN [to |-> recv,
                 err |-> Errorf("error parsing position offset", p.msg, p.text)]
           ELSE [to |-> [recv EXCEPT !.Position = p.n], err |-> NoError]
  ELSE LET r == DurationUnmarshalText(ZeroDuration, text)
       IN  [to |-> [recv EXCEPT !.Duration = <<r.d>>], err |-> r.err]

(* fmt.Sprintf("%d", n) *)
SprintfD(n) == IF n < 0 THEN <<"-">> \o Itoa(-n) ELSE Itoa(n)

(* float32(p)/100*100 - p in millionths, for |p| = a: the float32 rounding
   of the quotient and of the product *)
PercentRounding(a) ==
  CASE a = 15 -> 1
    [] a \in {27, 30} -> 2
    [] a \in {54, 60} -> 4
    [] a \in {53, 59} -> -4
    [] a \in {107, 108, 119, 120} -> 8
    [] a \in {105, 106, 117, 118} -> -8
    [] OTHER -> 0

(* fmt.Sprintf("%f", to.Percent*100) *)
SprintfF(p) ==
  LET a     == IF p < 0 THEN -p ELSE p
      micro == a * 1000000 + PercentRounding(a)
  IN  (IF p < 0 THEN <<"-">> ELSE <<>>) \o Itoa(micro \div 1000000) \o <<".">>
        \o PadZero(Itoa(micro % 1000000), 6)

TimeOffsetMarshalText(recv) ==
  IF recv.Duration # <<>> THEN DurationMarshalText(recv.Duration[1])
  ELSE IF recv.Position # 0 THEN <<"#">> \o SprintfD(recv.Position)
  ELSE IF recv.Percent # 0 THEN SprintfF(recv.Percent) \o <<"%">>
  ELSE <<>>

----------------------------------------------------------------------------
(* The texts the calls are given *)

(* the most separators a text given to Duration.UnmarshalText holds *)
MaxSeps == 5

(* the most calls one TimeOffset receives when it is reused *)
MaxCalls == 2

Seps == {":", "."}

(* what stands between two separators, by position, in a text of k fields:
   digit runs, empty fields, and characters the decoder passes over *)
FieldPool(i, k) ==
  CASE k <= 4 /\ i = 1 ->
         {<<>>, <<"0">>, <<"1">>, <<"x", "0", "9">>, <<"9", "0">>,
          <<"1", "0", "0">>,
          <<"2", "5", "6", "2", "0", "4", "7">>,
          <<"2", "5", "6", "2", "0", "4", "8">>}
    [] k <= 4 /\ i = 2 ->
         {<<>>, <<"0">>, <<"4", "x", "7">>, <<"5", "9">>}
    [] k <= 4 /\ i = 3 ->
         {<<>>, <<"5">>, <<"1", "6">>, <<"1", "7">>}
    [] k <= 4 /\ i = 4 ->
         {<<>>, <<"4">>, <<"0", "0", "7">>, <<"8", "5", "4">>, <<"8", "5", "5">>,
          <<"3", "6", "0", "0", "0", "0", "0">>}
    [] OTHER -> {<<>>, <<"1">>}

(* the texts of fields i .. k, a separator between each two *)
RECURSIVE FieldTexts(_, _)
FieldTexts(i, k) ==
  IF i = k THEN FieldPool(i, k)
  ELSE {f \o <<c>> \o rest : f \in FieldPool(i, k), c \in Seps, rest \in FieldTexts(i + 1, k)}

DurationTexts == UNION {FieldTexts(1, k) : k \in 1..(MaxSeps + 1)}

IntRuns ==
  {<<>>,
   <<"0">>,
   <<"5">>,
   <<"1", "5">>,
   <<"5", "0">>,
   <<"0", "0", "7">>,
   <<"1", "2", "7">>,
   <<"1", "2", "8">>,
   <<"1", "2", "9">>,
   <<"3", "0", "0">>,
   <<"1", "x">>}

OffsetTexts ==
  {pre \o sign \o run \o suf :
     pre \in {<<>>, <<"#">>}, sign \in {<<>>, <<"+">>, <<"-">>},
     run \in IntRuns, suf \in {<<>>, <<"%">>}}
  \cup
  {<<"s", "t", "a", "r", "t">>,
   <<"e", "n", "d">>,
   <<"S", "t", "a", "r", "t">>,
   <<"s", "t", "a", "r", "t", "s">>,
   <<"e", "n", "d", "%">>,
   <<"#", "s", "t", "a", "r", "t">>,
   <<"#", "a", "b", "c">>,
   <<"a", "b", "c", "%">>,
   <<"%">>,
   <<"#">>,
   <<"5", "#">>,
   <<"#", "5", "x", "%">>,
   <<"1", ":", "2", ":", "3", "%">>,
   <<"#", "1", ":", "2", ":", "3">>,
   <<"5", ".", "0", "%">>,
   <<"#", "0", "x", "1", "0">>,
   <<" ", "5", "%">>,
   <<"#", "1", "_", "0">>}

ReuseTexts ==
  {<<"s", "t", "a", "r", "t">>,
   <<"e", "n", "d">>,
   <<"5", "0", "%">>,
   <<"0", "%">>,
   <<"#", "3">>,
   <<"#", "0">>,
   <<"0", ":", "0", ":", "1">>,
   <<"1", ":", "2", ":", "3", ".", "0", "0", "4">>,
   <<"1">>,
   <<"#", "a", "b", "c">>,
   <<"a", "b", "c", "%">>,
   <<"1", ":", ":", "3">>}

(* Duration values: h hours, m minutes, s seconds and ms milliseconds *)
DurationValues ==
  {v \in {Dur(h, m * 60000 + s * 1000 + ms) :
            h \in {0, 1, 9, 10, 99, 100, 123, 2562047},
            m \in {0, 7, 47, 59}, s \in {0, 5, 16, 59}, ms \in {0, 4, 50, 854, 999}} :
     DurLeq(v, MaxDuration)}

----------------------------------------------------------------------------
(* The calls.  pc tells which call returned last; data is the text the last
   UnmarshalText call was given; d and to are the receivers; err is the
   error the last UnmarshalText call returned; out is the text the last
   MarshalText call returned; back is what decoding out into a fresh
   receiver gave.  fresh and calls serve the reused receiver: the value a
   fresh TimeOffset holds after the last successful call alone, and the
   number of calls so far. *)

NoBack == [d |-> ZeroDuration, to |-> ZeroTimeOffset, err |-> NoError]

Init ==
  /\ pc = "idle"
  /\ data = <<>>
  /\ d = ZeroDuration
  /\ to = ZeroTimeOffset
  /\ err = NoError
  /\ out = <<>>
  /\ back = NoBack
  /\ fresh = ZeroTimeOffset
  /\ calls = 0

(* d := Duration{v} *)
NewDuration ==
  /\ pc = "idle"
  /\ \E v \in DurationValues : d' = v
  /\ pc' = "value"
  /\ UNCHANGED <<data, to, err, out, back, fresh, calls>>

(* var d Duration; err := d.UnmarshalText(t) *)
CallDurationUnmarshalText ==
  /\ pc = "idle"
  /\ \E t \in DurationTexts \cup OffsetTexts :
       LET r == DurationUnmarshalText(d, t)
       IN  /\ data' = t
           /\ d' = r.d
           /\ err' = r.err
  /\ pc' = "decoded"
  /\ UNCHANGED <<to, out, back, fresh, calls>>

(* out, _ := d.MarshalText() *)
CallDurationMarshalText ==
  /\ pc = "value" \/ (pc = "decoded" /\ err = NoError)
  /\ out' = DurationMarshalText(d)
  /\ data' = <<>>
  /\ pc' = "encoded"
  /\ UNCHANGED <<d, to, err, back, fresh, calls>>

(* var d2 Duration; err := d2.UnmarshalText(out) *)
RedecodeDuration ==
  /\ pc = "encoded"
  /\ LET r == DurationUnmarshalText(ZeroDuration, out)
     IN  back' = [d |-> r.d, to |-> ZeroTimeOffset, err |-> r.err]
  /\ data' = out
  /\ pc' = "redecoded"
  /\ UNCHANGED <<d, to, err, out, fresh, calls>>

(* var to TimeOffset; err := to.UnmarshalText(t) *)
CallTimeOffsetUnmarshalText ==
  /\ pc = "idle"
  /\ \E t \in DurationTexts \cup OffsetTexts :
       LET r == TimeOffsetUnmarshalText(to, t)
       IN  /\ data' = t
           /\ to' = r.to
           /\ err' = r.err
  /\ pc' = "toDecoded"
  /\ UNCHANGED <<d, out, back, fresh, calls>>

(* out, _ := to.MarshalText() *)
CallTimeOffsetMarshalText ==
  /\ pc = "toDecoded" /\ err = NoError
  /\ out' = TimeOffsetMarshalText(to)
  /\ data' = <<>>
  /\ pc' = "toEncoded"
  /\ UNCHANGED <<d, to, err, back, fresh, calls>>

(* var to2 TimeOffset; err := to2.UnmarshalText(out) *)
RedecodeTimeOffset ==
  /\ pc = "toEncoded"
  /\ LET r == TimeOffsetUnmarshalText(ZeroTimeOffset, out)
     IN  back' = [d |-> ZeroDuration, to |-> r.to, err |-> r.err]
  /\ data' = out
  /\ pc' = "toRedecoded"
  /\ UNCHANGED <<d, to, err, out, fresh, calls>>

Next ==
  \/ NewDuration
  \/ CallDurationUnmarshalText
  \/ CallDurationMarshalText
  \/ RedecodeDuration
  \/ CallTimeOffsetUnmarshalText
  \/ CallTimeOffsetMarshalText
  \/ RedecodeTimeOffset

Spec == Init /\ [][Next]_vars

(* One TimeOffset receiving several UnmarshalText calls in a row *)

ReuseUnmarshalText ==
  /\ pc \in {"idle", "reused"}
  /\ calls < MaxCalls
  /\ \E t \in ReuseTexts :
       LET r == TimeOffsetUnmarshalText(to, t)
       IN  /\ data' = t
           /\ to' = r.to
           /\ err' = r.err
           /\ fresh' = IF r.err = NoError
                       THEN TimeOffsetUnmarshalText(ZeroTimeOffset, t).to
                       ELSE fresh
  /\ calls' = calls + 1
  /\ pc' = "reused"
  /\ UNCHANGED <<d, out, back>>

ReuseMarshalText ==
  /\ pc = "reused"
  /\ out' = TimeOffsetMarshalText(to)
  /\ pc' = "reusedEncoded"
  /\ UNCHANGED <<data, d, to, err, back, fresh, calls>>

NextReuse == ReuseUnmarshalText \/ ReuseMarshalText

SpecReuse == Init /\ [][NextReuse]_vars

----------------------------------------------------------------------------
(* Reading texts for the properties below, apart from the codecs *)

AllDigits(s) == \A i \in 1..Len(s) : s[i] \in Digits

(* the decimal value of a short digit run *)
RECURSIVE NatVal(_)
NatVal(run) ==
  IF run = <<>> THEN 0
  ELSE NatVal(SubSeq(run, 1, Len(run) - 1)) * 10 + DigitVal(run[Len(run)])

(* s cut at every character of S *)
RECURSIVE SplitOn(_, _)
SplitOn(s, S) ==
  IF \E i \in 1..Len(s) : s[i] \in S
  THEN LET n == CHOOSE i \in 1..Len(s) :
                  s[i] \in S /\ \A j \in 1..(i - 1) : s[j] \notin S
       IN  <<SubSeq(s, 1, n - 1)>> \o SplitOn(Drop(s, n), S)
  ELSE <<s>>

(* text without the characters that are neither digits nor separators *)
Stripped(text) == SelectSeq(text, LAMBDA c : c \in Digits \cup Seps)

SepCount(text) == Cardinality({i \in 1..Len(text) : text[i] \in Seps})

Runs(text) == SplitOn(Stripped(text), Seps)

ThreeOrFourRuns(text) ==
  /\ Len(Runs(text)) \in {3, 4}
  /\ \A i \in 1..Len(Runs(text)) : Runs(text)[i] # <<>>

HasEmptyRun(text) == \E i \in 1..Len(Runs(text)) : Runs(text)[i] = <<>>

(* f1 hours + f2 minutes + f3 seconds + f4 milliseconds *)
PositionalValue(text) ==
  LET f   == Runs(text)
      f4  == IF Len(f) = 4 THEN NatVal(f[4]) ELSE 0
      tot == NatVal(f[2]) * 60000 + NatVal(f[3]) * 1000 + f4
  IN  Dur(NatVal(f[1]) + tot \div HourMs, tot % HourMs)

(* text with "0" put into every field that holds no digit *)
RECURSIVE FillEmpty(_, _, _)
FillEmpty(text, i, seen) ==
  IF i > Len(text) THEN (IF seen THEN <<>> ELSE <<"0">>)
  ELSE IF text[i] \in Seps
       THEN (IF seen THEN <<>> ELSE <<"0">>) \o <<text[i]>> \o FillEmpty(text, i + 1, FALSE)
       ELSE <<text[i]>> \o FillEmpty(text, i + 1, seen \/ text[i] \in Digits)

(* the runs of text, each followed by the name of its unit *)
UnitName(i) == CASE i = 1 -> <<"h">> [] i = 2 -> <<"m">> [] i = 3 -> <<"s">>
                 [] i = 4 -> <<"m", "s">>

RECURSIVE WithUnits(_, _)
WithUnits(f, i) ==
  IF i > Len(f) THEN <<>> ELSE f[i] \o UnitName(i) \o WithUnits(f, i + 1)

(* a decimal integer: an optional sign and one digit or more *)
IntBody(s) == IF s # <<>> /\ s[1] \in {"+", "-"} THEN Drop(s, 1) ELSE s

IsDecimalInteger(s) == IntBody(s) # <<>> /\ AllDigits(IntBody(s))

IntValue(s) ==
  LET z   == StripZeros(IntBody(s))
      mag == IF Len(z) > 3 THEN 1000 ELSE NatVal(z)
  IN  IF s[1] = "-" THEN -mag ELSE mag

IsInt8(s) == IsDecimalInteger(s) /\ IntValue(s) \in -128..127

START == <<"s", "t", "a", "r", "t">>

END == <<"e", "n", "d">>

----------------------------------------------------------------------------
(* C1: encoding a Duration and decoding the text gives the Duration back:
   Duration.UnmarshalText succeeds on what Duration.MarshalText returned
   for d and yields d, for every whole number of milliseconds d >= 0,
   100 hours and more included. *)
C1_RoundTrip == pc = "redecoded" => back.err = NoError /\ back.d = d

C1_Witness ==
  /\ pc = "redecoded"
  /\ d.h >= 100
  /\ d.ms % 1000 > 0
  /\ back.err = NoError
  /\ back.d = d

(* C2, as amended: a text whose digits and separators form 3 or 4 non-empty
   digit runs decodes to f1 hours + f2 minutes + f3 seconds + f4
   milliseconds, whatever the separators and the characters passed over,
   when that total is at most 9223372036854 ms (2562047h47m16.854s, the
   largest time.Duration in whole milliseconds); for a larger total the
   call fails with a parse error and leaves the receiver alone. *)
C2_DecodeValue ==
  pc = "decoded" /\ ThreeOrFourRuns(data) =>
    IF DurLeq(PositionalValue(data), MaxDuration)
    THEN err = NoError /\ d = PositionalValue(data)
    ELSE err.msg = "error parsing duration" /\ d = ZeroDuration

C2_Witness ==
  /\ pc = "decoded"
  /\ ThreeOrFourRuns(data)
  /\ Len(Runs(data)) = 4
  /\ Stripped(data) # data
  /\ LET s == Stripped(data)
         seps == {i \in 1..Len(s) : s[i] \in Seps}
     IN  /\ \E i \in seps : s[i] = "." /\ \E j \in seps : j > i /\ s[j] = ":"
  /\ err = NoError
  /\ d = PositionalValue(data)
  /\ d.ms % 1000 > 0

(* C2 as stated: every such text decodes, to the positional value. *)
C2_Original ==
  pc = "decoded" /\ ThreeOrFourRuns(data) =>
    err = NoError /\ d = PositionalValue(data)

(* C3, as amended: Duration.UnmarshalText fails with the format error
   exactly when the text holds fewer than 2 or more than 3 separators; a
   text with 2 or 3 separators is never refused for its separator count. *)
C3_SeparatorBound ==
  pc = "decoded" =>
    (err.msg = "invalid duration format"
       <=> (SepCount(data) < 2 \/ SepCount(data) > 3))

C3_Witness ==
  /\ pc = "decoded"
  /\ SepCount(data) = 4
  /\ err.msg = "invalid duration format"

(* C3 as stated: the format error for fewer than 2 or more than 4
   separators, and none for 2, 3 or 4. *)
C3_Original ==
  pc = "decoded" =>
    /\ (SepCount(data) < 2 \/ SepCount(data) > 4
          => err.msg = "invalid duration format")
    /\ (SepCount(data) \in 2..4 => err.msg # "invalid duration format")

(* C4: a field without digits counts as zero: a text with 2 or 3
   separators decodes to what the text with "0" in each empty field
   decodes to. *)
C4_EmptyIsZero ==
  pc = "decoded" /\ SepCount(data) \in {2, 3} /\ HasEmptyRun(data) =>
    LET filled == DurationUnmarshalText(ZeroDuration, FillEmpty(data, 1, FALSE))
    IN  filled.err = NoError => err = NoError /\ d = filled.d

(* C5: Duration.MarshalText returns "00:00:00" for 0 and otherwise
   HH:MM:SS, HH the whole hours in 2 digits or more and never cut, MM and
   SS the minutes and seconds modulo 60 in 2 digits, followed by .mmm (the
   milliseconds modulo 1000 in 3 digits) exactly when these are not 0. *)
C5_EncodeFormat ==
  pc = "encoded" =>
    IF d = ZeroDuration
    THEN out = <<"0", "0", ":", "0", "0", ":", "0", "0">>
    ELSE
      LET f == SplitOn(out, {":"})
      IN  /\ Len(f) = 3
          /\ AllDigits(f[1]) /\ Len(f[1]) >= 2 /\ NatVal(f[1]) = d.h
          /\ Len(f[1]) > 2 => f[1][1] # "0"
          /\ Len(f[2]) = 2 /\ AllDigits(f[2])
          /\ NatVal(f[2]) = d.ms \div 60000
          /\ Len(f[3]) >= 2
          /\ AllDigits(SubSeq(f[3], 1, 2))
          /\ NatVal(SubSeq(f[3], 1, 2)) = (d.ms \div 1000) % 60
          /\ IF d.ms % 1000 > 0
             THEN /\ Len(f[3]) = 6
                  /\ f[3][3] = "."
                  /\ AllDigits(Drop(f[3], 3))
                  /\ NatVal(Drop(f[3], 3)) = d.ms % 1000
             ELSE Len(f[3]) = 2

C5_Witness ==
  /\ pc = "encoded"
  /\ d.h >= 100
  /\ d.ms \div 60000 > 0
  /\ d.ms % 1000 \in 1..99
  /\ Len(out) = 13

(* C6: TimeOffset.UnmarshalText on a fresh value tries in this order:
   "start" gives Position -1; "end" gives Position -2; a text ending in
   '%' succeeds exactly when what precedes '%' is a decimal integer in
   -128..127, and gives Percent that integer / 100; a text starting with
   '#' succeeds exactly when what follows '#' is such an integer, and gives
   Position that integer; any other text succeeds exactly when
   Duration.UnmarshalText does, and gives the Duration it yields.  A rule
   that matches is never passed over for a later one. *)
C6_Dispatch ==
  pc = "toDecoded" =>
    IF data = START THEN err = NoError /\ to = TimeOffset(<<>>, -1, 0)
    ELSE IF data = END THEN err = NoError /\ to = TimeOffset(<<>>, -2, 0)
    ELSE IF data # <<>> /\ data[Len(data)] = "%"
    THEN LET n == SubSeq(data, 1, Len(data) - 1)
         IN  IF IsInt8(n)
             THEN err = NoError /\ to = TimeOffset(<<>>, 0, IntValue(n))
             ELSE err.msg = "error parsing percentage offset"
    ELSE IF data # <<>> /\ data[1] = "#"
    THEN LET n == Drop(data, 1)
         IN  IF IsInt8(n)
             THEN err = NoError /\ to = TimeOffset(<<>>, IntValue(n), 0)
             ELSE err.msg = "error parsing position offset"
    ELSE LET r == DurationUnmarshalText(ZeroDuration, data)
         IN  IF r.err = NoError
             THEN err = NoError /\ to = TimeOffset(<<r.d>>, 0, 0)
             ELSE err = r.err

C6_Witness ==
  /\ pc = "toDecoded"
  /\ data = <<"#", "5", "%">>
  /\ err.msg = "error parsing percentage offset"

(* C7, as amended: the error of a separator-count failure carries the
   complete text the call was given.  The error of a digit-run parse
   failure carries the text rewritten for time.ParseDuration: its digit
   runs, each followed by h, m, s or ms, everything else dropped.  The
   error of a percent failure carries the text without its final '%', that
   of a position failure the text without its leading '#'; a delegated
   duration failure carries what Duration.UnmarshalText's error carries. *)
C7_ErrorPayload ==
  pc \in {"decoded", "toDecoded"} /\ err # NoError =>
    /\ err.msg \in {"invalid duration format", "error parsing duration",
                    "error parsing percentage offset",
                    "error parsing position offset"}
    /\ err.msg = "invalid duration format" => err.text = data
    /\ err.msg = "error parsing duration" => err.text = WithUnits(Runs(data), 1)
    /\ err.msg = "error parsing percentage offset"
         => err.text = SubSeq(data, 1, Len(data) - 1)
    /\ err.msg = "error parsing position offset" => err.text = Drop(data, 1)

C7_Witness ==
  /\ pc = "toDecoded"
  /\ err.msg = "error parsing percentage offset"
  /\ data = <<"a", "b", "c", "%">>
  /\ err.text = <<"a", "b", "c">>

(* C7 as stated: every error carries the complete text the call was
   given. *)
C7_Original ==
  pc \in {"decoded", "toDecoded"} /\ err # NoError => err.text = data

(* C8: after a successful TimeOffset.UnmarshalText on a fresh value exactly
   one of these holds: Duration is present, Position is not 0, Percent is
   not 0. *)
C8_OneVariant ==
  pc = "toDecoded" /\ err = NoError =>
    Cardinality({v \in {"Duration", "Position", "Percent"} :
                   \/ v = "Duration" /\ to.Duration # <<>>
                   \/ v = "Position" /\ to.Position # 0
                   \/ v = "Percent" /\ to.Percent # 0}) = 1

(* C9: the text TimeOffset.MarshalText returns for a value that
   TimeOffset.UnmarshalText accepted is accepted in turn, into a fresh
   value equal to the first field by field. *)
C9_Redecodable == pc = "toRedecoded" => back.err = NoError /\ back.to = to

(* C10: whatever calls a TimeOffset received before, TimeOffset.MarshalText
   returns for it what it returns for a fresh value that received the last
   successful call alone. *)
C10_HistoryFree ==
  pc = "reusedEncoded" /\ fresh # ZeroTimeOffset =>
    out = TimeOffsetMarshalText(fresh)

====
